---- MODULE Spec2Model ----
(***************************************************************************)
(* Model of the two scripts of the repository:                             *)
(*   Ecosystem/Ecosystem.py : the food-web feeding simulation              *)
(*   Sea_Wolf/sea_wold.py   : the microbe group scorer and best-group search*)
(*                                                                         *)
(* Python numbers.  The calories and the attribute averages are Python     *)
(* floats (IEEE-754 binary64) as soon as a true division `/` has touched   *)
(* them.  TLC has 32-bit integers only, so a binary64 value v is held as   *)
(* the exact integer v * 2^55, sign and magnitude, the magnitude written   *)
(* in three 21-bit limbs <<a2, a1, a0>> (most significant first).  Every   *)
(* value the two scripts compute from integer inputs below 2^8 with at     *)
(* most 8 divisors is a multiple of 2^-55 below 2^8, so the representation *)
(* is exact; each arithmetic operation rounds its exact result to 53       *)
(* significant bits, ties to even, as the hardware does.                   *)
(***************************************************************************)
EXTENDS Integers, Sequences, FiniteSets, TLC

\* ------------------------------------------------------------------------
\* binary64 arithmetic
\* ------------------------------------------------------------------------
LimbBits == 21
LimbBase == 2^LimbBits
FracBits == 55
Precision == 53

NZero == <<0, 0, 0>>

\* number of significant bits of one limb
LimbLen(n) == CHOOSE k \in 0..LimbBits : n < 2^k /\ (k = 0 \/ n >= 2^(k-1))

BitLen(x) ==
    IF x[1] > 0 THEN 2 * LimbBits + LimbLen(x[1])
    ELSE IF x[2] > 0 THEN LimbBits + LimbLen(x[2])
    ELSE LimbLen(x[3])

NAdd(x, y) ==
    LET s0 == x[3] + y[3]
        s1 == x[2] + y[2] + (s0 \div LimbBase)
        s2 == x[1] + y[1] + (s1 \div LimbBase)
    IN  <<s2, s1 % LimbBase, s0 % LimbBase>>

\* x - y for x >= y
NSub(x, y) ==
    LET d0 == x[3] - y[3]
        b0 == IF d0 < 0 THEN 1 ELSE 0
        d1 == x[2] - y[2] - b0
        b1 == IF d1 < 0 THEN 1 ELSE 0
        d2 == x[1] - y[1] - b1
    IN  <<d2, d1 + b1 * LimbBase, d0 + b0 * LimbBase>>

NLess(x, y) ==
    \/ x[1] < y[1]
    \/ x[1] = y[1] /\ x[2] < y[2]
    \/ x[1] = y[1] /\ x[2] = y[2] /\ x[3] < y[3]

\* round a magnitude to 53 significant bits, ties to even.  `above` tells
\* that the exact value lies strictly above x (a division's remainder).
RoundMag(x, above) ==
    LET s == BitLen(x) - Precision IN
    IF s <= 0 THEN x
    ELSE LET p    == 2^s
             r    == x[3] % p
             down == <<x[1], x[2], x[3] - r>>
             odd  == (x[3] \div p) % 2 = 1
             up   == \/ 2 * r > p
                     \/ 2 * r = p /\ (above \/ odd)
         IN  IF up THEN NAdd(down, <<0, 0, p>>) ELSE down

Float(neg, mag) == [neg |-> neg /\ mag # NZero, mag |-> mag]

\* float(n) for a Python int n
FromInt(n) ==
    LET a == IF n < 0 THEN -n ELSE n
    IN  Float(n < 0, <<a * 2^(FracBits - 2 * LimbBits), 0, 0>>)

FNeg(a) == Float(~a.neg, a.mag)

\* a + b, correctly rounded
FAdd(a, b) ==
    IF a.neg = b.neg THEN Float(a.neg, RoundMag(NAdd(a.mag, b.mag), FALSE))
    ELSE IF NLess(a.mag, b.mag) THEN Float(b.neg, RoundMag(NSub(b.mag, a.mag), FALSE))
    ELSE Float(a.neg, RoundMag(NSub(a.mag, b.mag), FALSE))

FSub(a, b) == FAdd(a, FNeg(b))

FLess(a, b) ==
    IF a.neg # b.neg THEN a.neg
    ELSE IF a.neg THEN NLess(b.mag, a.mag)
    ELSE NLess(a.mag, b.mag)

FLeq(a, b) == ~FLess(b, a)

\* n / k for Python ints n >= 0, k >= 1: the correctly rounded quotient
TrueDiv(n, k) ==
    LET a2 == n * 2^(FracBits - 2 * LimbBits)
        q2 == a2 \div k
        r2 == a2 % k
        q1 == (r2 * LimbBase) \div k
        r1 == (r2 * LimbBase) % k
        q0 == (r1 * LimbBase) \div k
        r0 == (r1 * LimbBase) % k
        q  == <<q2, q1, q0>>
    IN  IF BitLen(q) > Precision THEN Float(FALSE, RoundMag(q, r0 > 0))
        ELSE IF 2 * r0 > k \/ (2 * r0 = k /\ q0 % 2 = 1)
             THEN Float(FALSE, NAdd(q, <<0, 0, 1>>))
             ELSE Float(FALSE, q)

\* ------------------------------------------------------------------------
\* Ecosystem/Ecosystem.py
\* ------------------------------------------------------------------------
VARIABLES
    type,               \* node attribute "type" of every node of the graph
    eaten_by,           \* species_data: the predators listed for each species
    calories_needed,    \* node attribute, a Python int
    calories_provided,  \* node attribute, an int until a feeding makes it a float
    report,             \* the message simulate_feeding printed last
    fed,                \* the name the user typed last
    running             \* the input loop has not seen "exit"

ecoVars == <<type, eaten_by, calories_needed, calories_provided, report, fed, running>>

\* the variables of Sea_Wolf/sea_wold.py
VARIABLES
    microbes,       \* the microbes handed to calculate_score / loaded by the search
    site_profile,   \* the site profile
    indices,        \* itertools.combinations: the combination it yields next
    score,          \* the score calculate_score returned last
    best_score,     \* find_top_microbes: the best score so far
    best_combo,     \* find_top_microbes: the combination that scored it
    printed,        \* find_top_microbes: the "Combo ... Score" lines printed so far
    top_microbes,   \* the script's top_microbes after the search returned
    pc              \* where the script stands

seaVars == <<microbes, site_profile, indices, score, best_score, best_combo,
             printed, top_microbes, pc>>

vars == <<ecoVars, seaVars>>

\* the species of species_data, in file order
SpeciesOrder == <<"P", "Q", "X", "Y", "Z">>
Species == {SpeciesOrder[i] : i \in 1..Len(SpeciesOrder)}
\* what the user may type: a species or a name the graph does not hold
Names == Species \cup {"Ghost"}

NeededOfP == {10, 20}
NeededOfQ == {17}
ProvidedOfPrey == {5, 8, 9}
Predators == {"P", "Q"}
Prey == {"X", "Y", "Z"}
EatenByChoices == {{}, {"P"}, {"P", "Q"}}

\* G.add_edge(predator, prey) for every predator of eaten_by that is a node
Edges(eb) == {<<pred, prey>> \in Species \X Species : pred \in eb[prey]}

\* list(graph.successors(name)): the prey in the order their edges were added
RECURSIVE Successors(_, _, _)
Successors(eb, name, i) ==
    IF i > Len(SpeciesOrder) THEN <<>>
    ELSE IF <<name, SpeciesOrder[i]>> \in Edges(eb)
         THEN <<SpeciesOrder[i]>> \o Successors(eb, name, i + 1)
         ELSE Successors(eb, name, i + 1)

\* max(graph.nodes[p]["calories_provided"] for p in prey_list)
RECURSIVE MaxCal(_, _)
MaxCal(prov, prey_list) ==
    IF Len(prey_list) = 1 THEN prov[prey_list[1]]
    ELSE LET rest == MaxCal(prov, Tail(prey_list))
         IN  IF FLess(prov[prey_list[1]], rest) THEN rest ELSE prov[prey_list[1]]

\* [p for p in prey_list if graph.nodes[p]["calories_provided"] == max_cal]
BestPrey(prov, prey_list) ==
    SelectSeq(prey_list, LAMBDA p : prov[p] = MaxCal(prov, prey_list))

\* sum(...): Python adds left to right, starting from the int 0.  (CPython
\* 3.12 and later compensate the rounding of a float sum; for up to three
\* equal summands, all a tie of the graphs below can hold unless the tie is
\* at 0, both give the correctly rounded total.)
RECURSIVE SumFrom(_, _, _)
SumFrom(acc, prov, names) ==
    IF names = <<>> THEN acc
    ELSE SumFrom(FAdd(acc, prov[names[1]]), prov, Tail(names))

TotalAvailable(prov, best_prey) == SumFrom(FromInt(0), prov, best_prey)

\* variant: every tied prey gives the whole of needed
Portion_Whole(needed, best_prey) == TrueDiv(needed, 1)

\* portion = needed / len(best_prey)
Portion(needed, best_prey) == TrueDiv(needed, Len(best_prey))

\* variant: a prey never goes below 0
Eaten_Clamped(prov, best_prey, portion) ==
    [n \in Species |->
        IF \E i \in 1..Len(best_prey) : best_prey[i] = n
        THEN IF FLess(prov[n], portion) THEN FromInt(0) ELSE FSub(prov[n], portion)
        ELSE prov[n]]

\* graph.nodes[prey]["calories_provided"] -= portion, for every tied prey
Eaten(prov, best_prey, portion) ==
    [n \in Species |->
        IF \E i \in 1..Len(best_prey) : best_prey[i] = n
        THEN FSub(prov[n], portion)
        ELSE prov[n]]

EcoInit ==
    /\ type \in {t \in [Species -> {"producer", "consumer"}] :
                    /\ t["P"] = "consumer"
                    /\ \A n \in Prey : t[n] = "producer"}
    /\ eaten_by \in {e \in [Species -> EatenByChoices] :
                        e["P"] = {} /\ e["Q"] \in {{}, {"P"}}}
    /\ calories_needed \in {c \in [Species -> NeededOfP \cup NeededOfQ \cup {0}] :
                        /\ c["P"] \in NeededOfP
                        /\ c["Q"] \in NeededOfQ
                        /\ \A n \in Prey : c[n] = 0}
    /\ \E c \in [Species -> ProvidedOfPrey \cup {0}] :
            /\ \A n \in Prey : c[n] \in ProvidedOfPrey
            /\ \A n \in Predators : c[n] = 0
            /\ calories_provided = [n \in Species |-> FromInt(c[n])]
    /\ report = "none"
    /\ fed = "none"
    /\ running = TRUE

\* the prey list, the tied prey and the needed calories of one feeding event
PreyList(predator_name) == Successors(eaten_by, predator_name, 1)
TiedPrey(predator_name) == BestPrey(calories_provided, PreyList(predator_name))

\* if total_available < needed
Hungry(total_available, needed) == FLess(total_available, FromInt(needed))

\* the branch simulate_feeding takes, named by the message it prints
\* variant: the producer check is missing
Outcome_ProducersEat(predator_name) ==
    IF predator_name \notin Species THEN "NotFound"
    ELSE IF PreyList(predator_name) = <<>> THEN "NoPrey"
    ELSE IF Hungry(TotalAvailable(calories_provided, TiedPrey(predator_name)),
                   calories_needed[predator_name])
         THEN "InsufficientCalories"
         ELSE "Ate"

Outcome(predator_name) ==
    IF predator_name \notin Species THEN "NotFound"
    ELSE IF type[predator_name] = "producer" THEN "NoOp"
    ELSE IF PreyList(predator_name) = <<>> THEN "NoPrey"
    ELSE IF Hungry(TotalAvailable(calories_provided, TiedPrey(predator_name)),
                   calories_needed[predator_name])
         THEN "InsufficientCalories"
         ELSE "Ate"

\* simulate_feeding(food_chain_graph, user_input)
SimulateFeeding(predator_name) ==
    /\ running
    /\ fed' = predator_name
    /\ report' = Outcome(predator_name)
    /\ IF Outcome(predator_name) = "Ate"
       THEN LET best_prey == TiedPrey(predator_name)
                needed    == calories_needed[predator_name]
            IN  /\ calories_provided' =
                        Eaten(calories_provided, best_prey, Portion(needed, best_prey))
                /\ calories_needed' = [calories_needed EXCEPT ![predator_name] = 0]
       ELSE UNCHANGED <<calories_needed, calories_provided>>
    /\ UNCHANGED <<type, eaten_by, running, seaVars>>

\* the user types "exit"
Exit ==
    /\ running
    /\ running' = FALSE
    /\ UNCHANGED <<type, eaten_by, calories_needed, calories_provided, report, fed,
                   seaVars>>

Feed == \E predator_name \in Names : SimulateFeeding(predator_name)

\* ------------------------------------------------------------------------
\* Sea_Wolf/sea_wold.py
\* ------------------------------------------------------------------------
\* Python's None; a combination is never empty, so <<>> is free to stand for it
None == <<>>

GroupSize == 3
AverageOver == 3
Points == 20
Attributes == {"permeability", "mobility", "energy"}

\* the module's site_profile
SiteProfile ==
    [permeability |-> <<1, 2>>, mobility |-> <<2, 4>>, energy |-> <<8, 10>>,
     desirable |-> {"Aerobic"}]

\* sum(m[attr] for m in microbes): a sum of Python ints
RECURSIVE AttrSum(_, _)
AttrSum(ms, attr) ==
    IF ms = <<>> THEN 0 ELSE ms[1][attr] + AttrSum(Tail(ms), attr)

\* variant: the average is taken over the length of the group
Average_OverLen(ms, attr) == TrueDiv(AttrSum(ms, attr), Len(ms))

\* avg_permeability, avg_mobility, avg_energy
Average(ms, attr) == TrueDiv(AttrSum(ms, attr), AverageOver)

\* variant: the ends of the range are excluded
InRange_Open(range, avg) ==
    FLess(FromInt(range[1]), avg) /\ FLess(avg, FromInt(range[2]))

\* site_profile[attr][0] <= avg <= site_profile[attr][1]
InRange(range, avg) ==
    FLeq(FromInt(range[1]), avg) /\ FLeq(avg, FromInt(range[2]))

RangePoints(ms, profile, attr) ==
    IF InRange(profile[attr], Average(ms, attr)) THEN Points ELSE 0

\* variant: only the first microbe's traits are looked at
TraitPoints_FirstOnly(ms, profile) ==
    IF profile.desirable \cap ms[1].desireable # {} THEN Points ELSE 0

\* any(any_desirable.intersection(set(m.get('desireable', []))) for m in microbes)
TraitPoints(ms, profile) ==
    IF \E i \in 1..Len(ms) : profile.desirable \cap ms[i].desireable # {}
    THEN Points ELSE 0

calculate_score(ms, profile) ==
    RangePoints(ms, profile, "permeability") + RangePoints(ms, profile, "mobility")
        + RangePoints(ms, profile, "energy") + TraitPoints(ms, profile)

\* itertools.combinations(microbes, 3): the first index tuple, none when r > n
FirstIndices(n) == IF GroupSize > n THEN None ELSE [j \in 1..GroupSize |-> j]

\* itertools.combinations: the index tuple after ind, None when ind was the last
NextIndices(ind, n) ==
    LET movable == {i \in 1..GroupSize : ind[i] # i + n - GroupSize} IN
    IF movable = {} THEN None
    ELSE LET i == CHOOSE m \in movable : \A o \in movable : o <= m
         IN  [j \in 1..GroupSize |-> IF j < i THEN ind[j] ELSE ind[i] + 1 + (j - i)]

\* tuple(pool[i] for i in indices)
Combo(ms, ind) == [j \in 1..Len(ind) |-> ms[ind[j]]]

\* variants: an equal score replaces the best; every score replaces the best
Better_OrEqual(s, best) == s >= best
Better_Always(s, best) == TRUE

\* names = [m['name'] for m in combo]
NamesOf(combo) == [j \in 1..Len(combo) |-> combo[j].name]

\* if score > best_score
Better(s, best) == s > best

\* the microbes of microbe_data.json the model draws from
Kinds ==
    { [permeability |-> 1, mobility |-> 2, energy |-> 8,  desireable |-> {"Aerobic"}],
      [permeability |-> 1, mobility |-> 2, energy |-> 8,  desireable |-> {}],
      [permeability |-> 5, mobility |-> 5, energy |-> 5,  desireable |-> {}],
      [permeability |-> 2, mobility |-> 4, energy |-> 10, desireable |-> {"Anaerobic"}],
      [permeability |-> 1, mobility |-> 4, energy |-> 9,  desireable |-> {}] }

PoolKinds == {k \in Kinds : k.mobility # 4}

Named(k, i) ==
    [name |-> i, permeability |-> k.permeability, mobility |-> k.mobility,
     energy |-> k.energy, desireable |-> k.desireable]

MaxPool == 6
MaxGroup == 4

Pools(kinds, max) ==
    UNION {{[i \in 1..n |-> Named(f[i], i)] : f \in [1..n -> kinds]} : n \in 0..max}

Profiles ==
    { SiteProfile,
      [permeability |-> <<2, 3>>, mobility |-> <<0, 1>>, energy |-> <<5, 5>>,
       desirable |-> {"Anaerobic", "Motile"}] }

EcoIdle ==
    /\ type = <<>>
    /\ eaten_by = <<>>
    /\ calories_needed = <<>>
    /\ calories_provided = <<>>
    /\ report = "none"
    /\ fed = "none"
    /\ running = FALSE

SeaIdle ==
    /\ microbes = <<>>
    /\ site_profile = SiteProfile
    /\ indices = None
    /\ score = 0
    /\ best_score = 0
    /\ best_combo = None
    /\ printed = <<>>
    /\ top_microbes = None
    /\ pc = "idle"

\* ---- the search: find_top_microbes and the script around it ----
SearchInit ==
    /\ EcoIdle
    /\ microbes \in Pools(PoolKinds, MaxPool)
    /\ site_profile = SiteProfile
    /\ indices = FirstIndices(Len(microbes))
    /\ score = 0
    /\ best_score = 0
    /\ best_combo = None
    /\ printed = <<>>
    /\ top_microbes = None
    /\ pc = "loop"

\* one turn of `for combo in itertools.combinations(microbes, 3)`
LoopStep ==
    /\ pc = "loop"
    /\ indices # None
    /\ LET combo == Combo(microbes, indices)
           s     == calculate_score(combo, site_profile)
       IN  /\ score' = s
           /\ printed' = Append(printed, [names |-> NamesOf(combo), score |-> s])
           /\ IF Better(s, best_score)
              THEN best_score' = s /\ best_combo' = combo
              ELSE UNCHANGED <<best_score, best_combo>>
    /\ indices' = NextIndices(indices, Len(microbes))
    /\ UNCHANGED <<microbes, site_profile, top_microbes, pc, ecoVars>>

\* return best_combo, best_score; top_microbes, score = ...
Return ==
    /\ pc = "loop"
    /\ indices = None
    /\ top_microbes' = best_combo
    /\ score' = best_score
    /\ pc' = "returned"
    /\ UNCHANGED <<microbes, site_profile, indices, best_score, best_combo, printed,
                   ecoVars>>

\* `for m in top_microbes:` raises TypeError when top_microbes is None
PrintSelected ==
    /\ pc = "returned"
    /\ pc' = IF top_microbes = None THEN "TypeError" ELSE "printed"
    /\ UNCHANGED <<microbes, site_profile, indices, score, best_score, best_combo,
                   printed, top_microbes, ecoVars>>

SearchNext == LoopStep \/ Return \/ PrintSelected
SearchSpec == SearchInit /\ [][SearchNext]_vars

\* ---- the scorer alone: calculate_score on any group and profile ----
ScoreInit ==
    /\ EcoIdle
    /\ microbes \in Pools(Kinds, MaxGroup) \ {<<>>}
    /\ site_profile \in Profiles
    /\ indices = None
    /\ score = 0
    /\ best_score = 0
    /\ best_combo = None
    /\ printed = <<>>
    /\ top_microbes = None
    /\ pc = "call"

Score ==
    /\ pc = "call"
    /\ score' = calculate_score(microbes, site_profile)
    /\ pc' = "scored"
    /\ UNCHANGED <<microbes, site_profile, indices, best_score, best_combo,
                   printed, top_microbes, ecoVars>>

ScoreNext == Score
ScoreSpec == ScoreInit /\ [][ScoreNext]_vars

\* ---- the feeding simulation ----
FeedInit == EcoInit /\ SeaIdle
FeedNext == Feed \/ Exit
FeedSpec == FeedInit /\ [][FeedNext]_vars
\* ------------------------------------------------------------------------
\* Properties of the feeding simulation
\* ------------------------------------------------------------------------
\* the prey of a species, and those of them tied at the maximum
PreySet(p) == {n \in Species : p \in eaten_by[n]}
Tied(p) ==
    {n \in PreySet(p) :
        \A m \in PreySet(p) : FLeq(calories_provided[m], calories_provided[n])}
TiedValue(p) == calories_provided[CHOOSE n \in Tied(p) : TRUE]

\* k equal summands added one after the other
RECURSIVE Times(_, _)
Times(v, k) == IF k = 0 THEN FromInt(0) ELSE FAdd(Times(v, k - 1), v)

\* the four outcomes without a meal
NonSuccess(p) ==
    IF p \notin Species THEN TRUE
    ELSE IF type[p] = "producer" THEN TRUE
    ELSE IF PreySet(p) = {} THEN TRUE
    ELSE FLess(Times(TiedValue(p), Cardinality(Tied(p))), FromInt(calories_needed[p]))

\* a step of the input loop that fed the name fed'
FedStep == running /\ running'

\* C1: a feeding event that ends in one of the four non-success outcomes
\* (name not in the graph, a producer, no prey, tied prey sum below the
\* predator's calories_needed) changes no node's calories_needed or
\* calories_provided.
C1_NoMutation ==
    [][(FedStep /\ NonSuccess(fed'))
            => UNCHANGED <<calories_needed, calories_provided>>]_vars

\* the spec's example: P needs 20, its single top prey provides 5, P stays at 20
C1_Witness ==
    /\ report = "InsufficientCalories"
    /\ fed = "P"
    /\ calories_needed["P"] = 20
    /\ Cardinality(Tied("P")) = 1
    /\ TiedValue("P") = FromInt(5)

\* C2: a successful feeding event takes needed / (number of tied prey), the
\* Python quotient, from each tied prey and sets the predator's
\* calories_needed to 0; when the number of tied prey divides needed the
\* quotient is that integer.
C2_EqualSplit ==
    [][(FedStep /\ ~NonSuccess(fed')) =>
            LET k      == Cardinality(Tied(fed'))
                needed == calories_needed[fed']
            IN  /\ \A n \in Tied(fed') :
                        calories_provided'[n] =
                            FSub(calories_provided[n], TrueDiv(needed, k))
                /\ needed % k = 0 => TrueDiv(needed, k) = FromInt(needed \div k)
                /\ \A n \in Species \ Tied(fed') :
                        calories_provided'[n] = calories_provided[n]
                /\ calories_needed'[fed'] = 0]_vars

\* the spec's example: P needed 10, X and Y were tied at 8, now X = Y = 3
C2_Witness ==
    /\ report = "Ate"
    /\ fed = "P"
    /\ calories_needed["P"] = 0
    /\ calories_provided["X"] = FromInt(3)
    /\ calories_provided["Y"] = FromInt(3)

\* C9: the split is not clamped: a successful feeding event leaves a tied prey
\* below 0 exactly when the portion exceeds what the prey provided, and such a
\* state is reachable from a graph without negative calories_provided.
C9_NotClamped ==
    [][(FedStep /\ ~NonSuccess(fed')) =>
            LET portion == TrueDiv(calories_needed[fed'], Cardinality(Tied(fed')))
            IN  \A n \in Tied(fed') :
                    calories_provided'[n].neg <=> FLess(calories_provided[n], portion)]_vars

\* a prey has gone below 0
C9_Witness ==
    /\ report = "Ate"
    /\ \E n \in Species : FLess(calories_provided[n], FromInt(0))
\* ------------------------------------------------------------------------
\* Properties of the best-group search
\* ------------------------------------------------------------------------
\* the index tuples of all combinations, and the order itertools yields them in
AllCombos ==
    {c \in [1..GroupSize -> 1..Len(microbes)] :
        \A i \in 1..(GroupSize - 1) : c[i] < c[i + 1]}

LexLess(c, d) ==
    \E i \in 1..GroupSize : c[i] < d[i] /\ \A j \in 1..(i - 1) : c[j] = d[j]

\* the combinations the loop has been through so far
SeenCombos == {c \in AllCombos : indices = None \/ LexLess(c, indices)}

\* the printed lines are the combinations seen, in enumeration order, each
\* with the score calculate_score gives it
PrintedInOrder ==
    /\ Len(printed) = Cardinality(SeenCombos)
    /\ {printed[i].names : i \in 1..Len(printed)}
            = {NamesOf(Combo(microbes, c)) : c \in SeenCombos}
    /\ \A i \in 1..(Len(printed) - 1) : LexLess(printed[i].names, printed[i + 1].names)

Maximum(S) == CHOOSE m \in S : \A o \in S : o <= m

Searching == pc \in {"loop", "returned", "printed", "TypeError"}

\* C3: the best combination is the first one, in enumeration order, to reach
\* its score: every combination enumerated before it scored strictly less, so
\* a later combination with an equal score never replaces it.
C3_FirstMaximum ==
    (Searching /\ best_combo # None) =>
        \E i \in 1..Len(printed) :
            /\ printed[i].names = NamesOf(best_combo)
            /\ printed[i].score = best_score
            /\ \A j \in 1..(i - 1) : printed[j].score < best_score
            /\ \A j \in 1..(i - 1) : LexLess(printed[j].names, printed[i].names)

\* two disjoint groups share the maximum and the earlier one was returned
C3_Witness ==
    /\ pc = "returned"
    /\ \E i, j \in 1..Len(printed) :
            /\ i < j
            /\ {printed[i].names[k] : k \in 1..GroupSize}
                  \cap {printed[j].names[k] : k \in 1..GroupSize} = {}
            /\ printed[i].score = score
            /\ printed[j].score = score
            /\ NamesOf(top_microbes) = printed[i].names

\* C4: over a pool with fewer microbes than the group size the search does
\* not return normally: it fails with InsufficientCandidates / EmptyPool.
C4_InsufficientCandidates ==
    Len(microbes) < GroupSize => pc # "returned"

\* C5: with at least group-size microbes in the pool the search returns a
\* group, also when every combination scores 0.
C5_GroupWheneverOneExists ==
    (pc = "returned" /\ Len(microbes) >= GroupSize) => top_microbes # None

\* C10: after each step the tracked best score is the maximum over the
\* combinations seen so far (0 when none exceeded 0), the tracked group scores
\* it, and the returned score is the returned group's score and the maximum
\* of the scorer over all the combinations of the pool.
C10_TrackedMaximum ==
    Searching =>
        /\ PrintedInOrder
        /\ best_score = Maximum({printed[i].score : i \in 1..Len(printed)} \cup {0})
        /\ best_combo # None => calculate_score(best_combo, site_profile) = best_score
        /\ Len(printed) > 0 =>
              LET last == printed[Len(printed)] IN
              \E c \in SeenCombos :
                  /\ NamesOf(Combo(microbes, c)) = last.names
                  /\ calculate_score(Combo(microbes, c), site_profile) = last.score
        /\ (pc = "returned" /\ top_microbes # None) =>
                /\ score = calculate_score(top_microbes, site_profile)
                /\ SeenCombos = AllCombos
                /\ \A i \in 1..Len(printed) : printed[i].score <= score

\* a returned group that is neither the first nor the last combination and
\* that beats combinations on both sides of it
C10_Witness ==
    /\ pc = "returned"
    /\ top_microbes # None
    /\ \E h, i, j \in 1..Len(printed) :
            /\ printed[i].names = NamesOf(top_microbes)
            /\ h < i /\ i < j
            /\ 0 < printed[h].score /\ printed[h].score < score
            /\ 0 < printed[j].score /\ printed[j].score < score

\* ------------------------------------------------------------------------
\* Properties of the scorer
\* ------------------------------------------------------------------------
\* the attribute's total lies between n times the minimum and n times the
\* maximum: the mean over n lies in the closed range, in exact arithmetic
MeanInRange(attr, n) ==
    /\ site_profile[attr][1] * n <= AttrSum(microbes, attr)
    /\ AttrSum(microbes, attr) <= site_profile[attr][2] * n

HasDesired ==
    \E i \in 1..Len(microbes) :
        \E t \in site_profile.desirable : t \in microbes[i].desireable

PointsIf(b) == IF b THEN Points ELSE 0

\* the score when every average is the total over n
ScoreOver(n) ==
    PointsIf(MeanInRange("permeability", n)) + PointsIf(MeanInRange("mobility", n))
        + PointsIf(MeanInRange("energy", n)) + PointsIf(HasDesired)

\* C6: for a group of three, each attribute earns its 20 points exactly when
\* profile.min <= average <= profile.max, both ends included.
C6_ClosedInterval ==
    (pc = "scored" /\ Len(microbes) = GroupSize) =>
        /\ score = ScoreOver(GroupSize)
        /\ \A attr \in Attributes :
              RangePoints(microbes, site_profile, attr) = Points
                  <=> MeanInRange(attr, GroupSize)

\* an average equal to the minimum, another equal to the maximum, both paid
C6_Witness ==
    /\ pc = "scored"
    /\ Len(microbes) = GroupSize
    /\ site_profile = SiteProfile
    /\ AttrSum(microbes, "permeability") = GroupSize * site_profile.permeability[1]
    /\ AttrSum(microbes, "mobility") = GroupSize * site_profile.mobility[2]
    /\ score >= 2 * Points

Reorderings(n) == {f \in [1..n -> 1..n] : \A i, j \in 1..n : f[i] = f[j] => i = j}

\* C7: the score is the same for every reordering of the group.
C7_OrderIndependent ==
    pc = "scored" =>
        \A f \in Reorderings(Len(microbes)) :
            calculate_score([i \in 1..Len(microbes) |-> microbes[f[i]]], site_profile)
                = score

\* a scored group whose first microbe alone carries a desired trait
C7_Witness ==
    /\ pc = "scored"
    /\ Len(microbes) >= 2
    /\ site_profile.desirable \cap microbes[1].desireable # {}
    /\ \A i \in 2..Len(microbes) : site_profile.desirable \cap microbes[i].desireable = {}
    /\ microbes[1].permeability # microbes[2].permeability

\* C8 as claimed: the value compared against the range is the mean over the
\* n microbes of the group, whatever n is.
C8_MeanOverGroup ==
    pc = "scored" => score = ScoreOver(Len(microbes))

\* C8 as the code has it: the value compared against the range is the
\* attribute's total divided by 3, whatever the size of the group.
C8_TotalOverThree ==
    pc = "scored" => score = ScoreOver(AverageOver)

\* a group of another size whose score differs from the one its mean would earn
C8_Witness ==
    /\ pc = "scored"
    /\ Len(microbes) # AverageOver
    /\ score # ScoreOver(Len(microbes))
====
